---------------------------- MODULE Spec2Model ----------------------------
(***************************************************************************)
(* State-machine model of the ASI Chain agent simulation engine            *)
(* (src/agent_sim_simple.py): the reputation store, the rule dispatcher    *)
(* (SimpleMeTTaRuntime plus the grounded functions and rules registered on *)
(* it), the step engine, reset, and the derived metrics.                   *)
(*                                                                         *)
(* Numbers.  Reputations are Python floats.  The model keeps them in fixed *)
(* point, in tenths: Fix(n) is the whole number n.  Every delta of the     *)
(* code (15, 8, -2) is whole; transfer amounts are drawn whole, so that    *)
(* the credit 1.1 * amount is an exact number of tenths.  Agent ids are    *)
(* the indices i of the names "Agent_i".                                   *)
(***************************************************************************)
EXTENDS Integers, Sequences, FiniteSets, TLC

VARIABLES
    agents,          \* self.agents: agent index -> reputation (tenths)
    num_agents,      \* self.num_agents
    step_count,      \* self.step_count
    action_history,  \* self.action_history: sequence of (agent, action, change)
    key_order,       \* the keys of self.agents in the dictionary's insertion order
    call,            \* the operation the caller invoked last, with its arguments
    ret,             \* what that operation returned (or raised)
    before,          \* self.agents as it stood when that step or dispatcher call was
                     \* invoked (empty after construction and after a reset)
    calls,           \* number of direct dispatcher calls the caller has made
    held,            \* the object a getter handed to the caller, which the caller keeps
    metta,           \* self.metta: the rules and the grounded functions registered by name
    threads,         \* callers that share the instance: their position inside step(),
                     \* their local variables and the records step() returned to them
    session          \* st.session_state of the dashboard (src/app.py)

vars == <<agents, num_agents, step_count, action_history, key_order, call, ret, before,
          calls, held, metta, threads, session>>

---------------------------------------------------------------------------
(* Bounds of the model *)

\* largest agent count handed to the constructor or to reset
MaxAgents == 2
\* steps taken between two resets in Spec
MaxSteps == 2
\* steps taken between two resets in SpecRun
MaxRun == 7
\* direct dispatcher calls made by the caller in SpecOps
MaxCalls == 2
\* calls of step() made by each of the callers that share an instance
MaxThreadCalls == 1

---------------------------------------------------------------------------
(* Arithmetic helpers *)

Fix(n) == n * 10

Max(a, b) == IF a >= b THEN a ELSE b

Min(a, b) == IF a <= b THEN a ELSE b

RECURSIVE GCD(_, _)
GCD(a, b) == IF b = 0 THEN a ELSE GCD(b, a % b)

\* the quotient p / q of two non-negative fixed-point numbers, q > 0, kept exact
\* as a fraction in lowest terms
Quotient(p, q) == LET g == GCD(p, q) IN [num |-> p \div g, den |-> q \div g]

\* the float 0.0
Zero == [num |-> 0, den |-> 1]

\* return values: a number, None, or a raised exception
Val(v) == [kind |-> "value", value |-> v]
NoneVal == [kind |-> "none"]
Raised(e) == [kind |-> "raise", error |-> e]

\* the result of an operation on the store: the new store and the return value
Outcome(ag, r) == [agents |-> ag, ret |-> r]

---------------------------------------------------------------------------
(* Program constants *)

ReputationFloor == 0
ReputationCeiling == 200
ContributeDelta == 15
ShareDelta == 8
IdleDelta == -2
SeedLow == 50
SeedHigh == 100
AmountLow == 5
AmountHigh == 15
HighTier == 100
MediumTier == 50
\* the smallest values of the sidebar's sliders for agents and steps
SidebarAgents == 3
SidebarSteps == 10

\* transfer_amount * 1.1, for an amount that is a whole number of units
Premium(amount) == (amount * 11) \div 10

Actions == {"contribute", "share", "trade", "idle"}

\* the names registered with add_rule
RuleNames == {"action-contribute", "action-share", "action-idle", "transfer-reputation"}

\* the names registered with register_function
GroundedNames == {"update-reputation", "get-reputation", "transfer-reputation"}

---------------------------------------------------------------------------
(* Inputs the model enumerates *)

\* values random.uniform(50, 100) returns in Spec
InitReps == {Fix(SeedLow), Fix(SeedHigh)}

\* values random.uniform(5, 15) returns in Spec
TransferAmounts == {Fix(AmountLow), Fix(AmountHigh)}

\* the draws of the long runs of SpecRun: one seed, one amount, and the two
\* action kinds that raise a reputation
RunReps == {Fix(SeedHigh)}
RunAmounts == {Fix(AmountHigh)}
RunActions == {"contribute", "trade"}

\* agent counts handed to the constructor and to reset: positive ones, zero and
\* a negative one
AgentCounts == (-1)..MaxAgents

\* an index that names no agent: "Agent_k" for k beyond every count
UnknownAgent == MaxAgents + 1

\* stands for "no partner was drawn"
NoAgent == -1

\* the callers that share one instance
Threads == {1, 2}

---------------------------------------------------------------------------
(* Reputation store and grounded functions *)

Known(ag, agent_name) == agent_name \in DOMAIN ag

\* Clamp with the floor forgotten: min(200, old_rep + change)
ClampCeilingOnly(x) == Min(Fix(ReputationCeiling), x)

\* max(0, min(200, old_rep + change))
Clamp(x) == Max(Fix(ReputationFloor), Min(Fix(ReputationCeiling), x))

\* update_reputation that stores the new value without testing for membership
update_reputation_create(ag, agent_name, change) ==
    LET old == IF agent_name \in DOMAIN ag THEN ag[agent_name] ELSE 0
        new == [i \in (DOMAIN ag) \cup {agent_name} |->
                    IF i = agent_name THEN Clamp(old + change) ELSE ag[i]]
    IN  [agents |-> new, ret |-> Val(new[agent_name])]

update_reputation(ag, agent_name, change) ==
    IF Known(ag, agent_name)
    THEN LET new == [ag EXCEPT ![agent_name] = Clamp(ag[agent_name] + change)]
         IN  Outcome(new, Val(new[agent_name]))
    ELSE Outcome(ag, Val(0))

get_reputation(ag, agent_name) ==
    IF Known(ag, agent_name)
    THEN Outcome(ag, Val(ag[agent_name]))
    ELSE Outcome(ag, Val(0))

\* transfer_reputation with the balance test forgotten
transfer_reputation_unchecked(ag, from_agent, to_agent, transfer_amount) ==
    IF Known(ag, from_agent) /\ Known(ag, to_agent)
    THEN LET debited == [ag EXCEPT ![from_agent] = @ - transfer_amount]
             credited == [debited EXCEPT ![to_agent] = @ + Premium(transfer_amount)]
         IN  [agents |-> credited, ret |-> Val(1)]
    ELSE [agents |-> ag, ret |-> Val(0)]

\* transfer_reputation whose balance test guards the debit alone
transfer_reputation_partial(ag, from_agent, to_agent, transfer_amount) ==
    IF Known(ag, from_agent) /\ Known(ag, to_agent)
    THEN IF ag[from_agent] >= transfer_amount
         THEN LET debited == [ag EXCEPT ![from_agent] = @ - transfer_amount]
                  credited == [debited EXCEPT ![to_agent] = @ + Premium(transfer_amount)]
              IN  [agents |-> credited, ret |-> Val(1)]
         ELSE [agents |-> [ag EXCEPT ![to_agent] = @ + Premium(transfer_amount)],
               ret |-> Val(0)]
    ELSE [agents |-> ag, ret |-> Val(0)]

\* transfer_reputation with the balance test written > instead of >=
transfer_reputation_strict(ag, from_agent, to_agent, transfer_amount) ==
    IF Known(ag, from_agent) /\ Known(ag, to_agent)
       /\ ag[from_agent] > transfer_amount
    THEN LET debited == [ag EXCEPT ![from_agent] = @ - transfer_amount]
             credited == [debited EXCEPT ![to_agent] = @ + Premium(transfer_amount)]
         IN  [agents |-> credited, ret |-> Val(1)]
    ELSE [agents |-> ag, ret |-> Val(0)]

\* transfer_reputation with debit and credit both computed from the store as it
\* stood on entry
transfer_reputation_snapshot(ag, from_agent, to_agent, transfer_amount) ==
    IF Known(ag, from_agent) /\ Known(ag, to_agent) /\ ag[from_agent] >= transfer_amount
    THEN [agents |-> [i \in DOMAIN ag |->
                        IF i = to_agent THEN ag[i] + Premium(transfer_amount)
                        ELSE IF i = from_agent THEN ag[i] - transfer_amount
                        ELSE ag[i]],
          ret |-> Val(1)]
    ELSE [agents |-> ag, ret |-> Val(0)]

transfer_reputation(ag, from_agent, to_agent, transfer_amount) ==
    IF Known(ag, from_agent) /\ Known(ag, to_agent) /\ ag[from_agent] >= transfer_amount
    THEN LET debited == [ag EXCEPT ![from_agent] = @ - transfer_amount]
             credited == [debited EXCEPT ![to_agent] = @ + Premium(transfer_amount)]
         IN  Outcome(credited, Val(1))
    ELSE Outcome(ag, Val(0))

\* SimpleMeTTaRuntime(): both registries empty
SimpleMeTTaRuntime == [rules |-> <<>>, grounded_functions |-> <<>>]

\* self.grounded_functions[name] = func
register_function(m, name, func) ==
    [m EXCEPT !.grounded_functions =
        [n \in (DOMAIN @) \cup {name} |-> IF n = name THEN func ELSE @[n]]]

\* add_rule written as self.rules = {name: func}: the new rule replaces the registry
add_rule_replace(m, name, func) ==
    [m EXCEPT !.rules = [n \in {name} |-> func]]

\* self.rules[name] = func
add_rule(m, name, func) ==
    [m EXCEPT !.rules = [n \in (DOMAIN @) \cup {name} |-> IF n = name THEN func ELSE @[n]]]

\* _register_grounded_functions: the three closures, registered under their names
register_grounded_functions(m) ==
    register_function(
        register_function(
            register_function(m, "update-reputation", "update_reputation"),
            "get-reputation", "get_reputation"),
        "transfer-reputation", "transfer_reputation")

\* _load_rules: the four closures, registered under their names
load_rules(m) ==
    add_rule(
        add_rule(
            add_rule(
                add_rule(m, "action-contribute", "action_contribute"),
                "action-share", "action_share"),
            "action-idle", "action_idle"),
        "transfer-reputation", "action_transfer")

\* the grounded function registered under a name, applied to its arguments
Grounded(ag, name, args) ==
    LET func == metta.grounded_functions[name]
    IN  CASE func = "update_reputation"   -> update_reputation(ag, args[1], args[2])
          [] func = "get_reputation"      -> get_reputation(ag, args[1])
          [] func = "transfer_reputation" -> transfer_reputation(ag, args[1], args[2], args[3])

---------------------------------------------------------------------------
(* Rules and the textual run interface *)

\* action-contribute bound to the delta of action-share
action_contribute_as_share(ag, agent) ==
    Grounded(ag, "update-reputation", <<agent, Fix(ShareDelta)>>)

action_contribute(ag, agent) ==
    Grounded(ag, "update-reputation", <<agent, Fix(ContributeDelta)>>)

\* action-share raising every agent's reputation
action_share_all(ag, agent) ==
    LET new == [i \in DOMAIN ag |-> Clamp(ag[i] + Fix(ShareDelta))]
    IN  [agents |-> new, ret |-> Val(new[agent])]

action_share(ag, agent) ==
    Grounded(ag, "update-reputation", <<agent, Fix(ShareDelta)>>)

action_idle(ag, agent) ==
    Grounded(ag, "update-reputation", <<agent, Fix(IdleDelta)>>)

action_transfer(ag, from_agent, to_agent, amount) ==
    Grounded(ag, "transfer-reputation", <<from_agent, to_agent, amount>>)

\* self.rules[action](*args)
Rule(ag, action, args) ==
    LET func == metta.rules[action]
    IN  CASE func = "action_contribute" -> action_contribute(ag, args[1])
          [] func = "action_share"      -> action_share(ag, args[1])
          [] func = "action_idle"       -> action_idle(ag, args[1])
          [] func = "action_transfer"   -> action_transfer(ag, args[1], args[2], args[3])

\* SimpleMeTTaRuntime.run on the command "!(action arg ...)"
run(ag, action, args) ==
    IF action \in DOMAIN metta.rules
    THEN Rule(ag, action, args)
    ELSE Outcome(ag, NoneVal)

---------------------------------------------------------------------------
(* Metrics *)

RECURSIVE SumValues(_, _)
SumValues(ag, ids) ==
    IF ids = {} THEN 0
    ELSE LET i == CHOOSE x \in ids : TRUE
         IN  ag[i] + SumValues(ag, ids \ {i})

\* get_health_score with the division forgotten
get_health_score_sum(ag) ==
    IF DOMAIN ag = {}
    THEN Zero
    ELSE Quotient(SumValues(ag, DOMAIN ag), 1)

get_health_score(ag) ==
    IF DOMAIN ag = {}
    THEN Zero
    ELSE Quotient(SumValues(ag, DOMAIN ag), Cardinality(DOMAIN ag))

\* the tier tests written > instead of >=
TierStrict(reputation) ==
    IF reputation > Fix(HighTier) THEN "high"
    ELSE IF reputation > Fix(MediumTier) THEN "medium"
    ELSE "low"

Tier(reputation) ==
    IF reputation >= Fix(HighTier) THEN "high"
    ELSE IF reputation >= Fix(MediumTier) THEN "medium"
    ELSE "low"

get_reputation_distribution(ag) ==
    [t \in {"high", "medium", "low"} |->
        Cardinality({i \in DOMAIN ag : Tier(ag[i]) = t})]

\* An object handed to the caller: its content, and whether it is the very
\* object the engine keeps (shared) or an object of its own.
NoObject == [kind |-> "none"]

\* what the caller sees in the object it holds once the engine's own dictionary
\* and list have become ag and hist: a shared object shows the engine's content
Follow(h, ag, hist) ==
    IF h.kind # "none" /\ h.shared
    THEN [h EXCEPT !.value = IF h.kind = "states" THEN ag ELSE hist]
    ELSE h

\* get_agent_states returning self.agents itself
get_agent_states_alias(ag) == [kind |-> "states", shared |-> TRUE, value |-> ag]

\* return self.agents.copy(): a new dictionary with the same items
get_agent_states(ag) == [kind |-> "states", shared |-> FALSE, value |-> ag]

\* return self.action_history.copy(): a new list with the same items
get_action_history(h) == [kind |-> "history", shared |-> FALSE, value |-> h]

---------------------------------------------------------------------------
(* Construction and reset *)

\* _initialize_agents looping over range(n + 1)
initialize_agents_extra(ag, n, seeds) ==
    [i \in (DOMAIN ag) \cup (0..n) |->
        IF i \in 0..(n - 1) THEN seeds[i] ELSE IF i = n THEN Fix(SeedLow) ELSE ag[i]]

\* the store after _initialize_agents has assigned Agent_0 .. Agent_{n-1}
initialize_agents(ag, n, seeds) ==
    [i \in (DOMAIN ag) \cup (0..(n - 1)) |->
        IF i \in 0..(n - 1) THEN seeds[i] ELSE ag[i]]

\* the keys inserted from the last index down to the first
insertion_order_reversed(keys, n) ==
    keys \o SelectSeq([j \in 1..n |-> n - j],
                      LAMBDA i : ~ \E p \in DOMAIN keys : keys[p] = i)

\* the keys after _initialize_agents: a new key goes to the end of a dictionary,
\* a key already present keeps its place
insertion_order(keys, n) ==
    keys \o SelectSeq([j \in 1..n |-> j - 1],
                      LAMBDA i : ~ \E p \in DOMAIN keys : keys[p] = i)

Empty == [i \in {} |-> 0]

\* the registry __init__ leaves in self.metta: lines 62, 71 and 74
InitialRegistry == load_rules(register_grounded_functions(SimpleMeTTaRuntime))

\* no caller is inside step()
NoThreads ==
    [use_lock |-> FALSE, lock |-> 0,
     pc |-> [t \in Threads |-> "idle"],
     local |-> [t \in Threads |-> NoneVal],
     returned |-> [t \in Threads |-> <<>>]]

\* initialize_session_state() on a new browser session
initialize_session_state ==
    [simulation |-> FALSE, is_running |-> FALSE, stop_flag |-> FALSE,
     history |-> <<>>, health_score_history |-> <<>>, start_simulation |-> FALSE,
     sim_params |-> NoneVal, agent_states_history |-> <<>>, current_view_step |-> 0,
     step |-> 0, in_loop |-> FALSE]

\* the engine used on its own: by one caller, without the dashboard
Standalone == threads = NoThreads /\ session = initialize_session_state

Construct(counts, reps) ==
    \E n \in counts : \E seeds \in [0..(n - 1) -> reps] :
        /\ num_agents = n
        /\ metta = InitialRegistry
        /\ agents = initialize_agents(Empty, n, seeds)
        /\ key_order = insertion_order(<<>>, n)
        /\ action_history = <<>>
        /\ step_count = 0
        /\ call = [via |-> "api", op |-> "construct", args |-> <<n>>]
        /\ ret = NoneVal
        /\ before = Empty
        /\ calls = 0
        /\ held = NoObject

Init == Construct(AgentCounts, InitReps) /\ Standalone

\* reset(num_agents=k) when given, reset() otherwise
ResetTo(given, k, reps) ==
    \E seeds \in [0..(k - 1) -> reps] :
        /\ num_agents' = k
        /\ agents' = initialize_agents(Empty, k, seeds)
        /\ key_order' = insertion_order(<<>>, k)
        /\ action_history' = <<>>
        /\ step_count' = 0
        /\ call' = [via |-> "api", op |-> "reset", args |-> IF given THEN <<k>> ELSE <<>>]
        /\ ret' = NoneVal
        /\ before' = Empty
        /\ calls' = calls
        /\ held' = Follow(held, agents', action_history')
        /\ UNCHANGED <<metta, threads>>

\* reset(num_agents); given = FALSE is reset() without a count
ResetWith(counts, reps) ==
    \E given \in BOOLEAN : \E k \in (IF given THEN counts ELSE {num_agents}) :
        ResetTo(given, k, reps) /\ UNCHANGED session

Reset == ResetWith(AgentCounts, InitReps)

---------------------------------------------------------------------------
(* The step engine *)

\* the dispatch with the two parties of a trade exchanged
DispatchReversed(ag, agent_name, action, partner, transfer_amount) ==
    CASE action = "contribute" -> run(ag, "action-contribute", <<agent_name>>)
      [] action = "share"      -> run(ag, "action-share", <<agent_name>>)
      [] action = "trade"      ->
            IF partner # NoAgent
            THEN run(ag, "transfer-reputation", <<partner, agent_name, transfer_amount>>)
            ELSE [agents |-> ag, ret |-> NoneVal]
      [] OTHER                 -> run(ag, "action-idle", <<agent_name>>)

\* the dispatch of step(): lines 175-189
Dispatch(ag, agent_name, action, partner, transfer_amount) ==
    CASE action = "contribute" -> run(ag, "action-contribute", <<agent_name>>)
      [] action = "share"      -> run(ag, "action-share", <<agent_name>>)
      [] action = "trade"      ->
            IF partner # NoAgent
            THEN run(ag, "transfer-reputation", <<agent_name, partner, transfer_amount>>)
            ELSE Outcome(ag, NoneVal)
      [] OTHER                 -> run(ag, "action-idle", <<agent_name>>)

\* the tuple appended to action_history
HistoryEntry(agent_name, action, reputation_change) ==
    [agent |-> agent_name, action |-> action, reputation_change |-> reputation_change]

\* the dictionary built from the counter read before its increment
StepRecordStale(count, agent_name, action, old_reputation, new_reputation, health) ==
    [step |-> count - 1, agent |-> agent_name, action |-> action,
     old_reputation |-> old_reputation, new_reputation |-> new_reputation,
     reputation_change |-> new_reputation - old_reputation,
     health_score |-> health]

\* the dictionary with the change computed as old - new
StepRecordNegated(count, agent_name, action, old_reputation, new_reputation, health) ==
    [step |-> count, agent |-> agent_name, action |-> action,
     old_reputation |-> old_reputation, new_reputation |-> new_reputation,
     reputation_change |-> old_reputation - new_reputation,
     health_score |-> health]

\* the dictionary step() returns
StepRecord(count, agent_name, action, old_reputation, new_reputation, health) ==
    [step |-> count, agent |-> agent_name, action |-> action,
     old_reputation |-> old_reputation, new_reputation |-> new_reputation,
     reputation_change |-> new_reputation - old_reputation,
     health_score |-> health]

\* other_agents without its filter: every key
OtherAgentsAll(ag, agent_name) == DOMAIN ag

\* other_agents = [a for a in self.agents.keys() if a != agent_name]
OtherAgents(ag, agent_name) == (DOMAIN ag) \ {agent_name}

\* the candidates restricted to the agents below the high tier
agent_names_below_high(ag) == {a \in DOMAIN ag : ag[a] < Fix(HighTier)}

\* list(self.agents.keys()), from which random.choice draws the acting agent
agent_names(ag) == DOMAIN ag

\* step(), with random.choice drawing the acting agent among drawn, random.choices
\* the action among kinds and random.uniform the amount among amounts
StepDrawn(limit, drawn, kinds, amounts) ==
    /\ step_count < limit
    /\ step_count' = step_count + 1
    /\ before' = agents
    /\ UNCHANGED <<num_agents, calls, key_order, metta, threads>>
    /\ IF DOMAIN agents = {}
       THEN \* random.choice of an empty list raises IndexError
            /\ call' = [via |-> "api", op |-> "step", args |-> <<>>]
            /\ ret' = Raised("IndexError")
            /\ UNCHANGED <<agents, action_history>>
       ELSE \E agent_name \in drawn : \E action \in kinds :
              LET other_agents == OtherAgents(agents, agent_name)
                  trading == action = "trade" /\ other_agents # {}
              IN  \E partner \in (IF trading THEN other_agents ELSE {NoAgent}) :
                  \E transfer_amount \in (IF trading THEN amounts ELSE {0}) :
                    LET old_reputation == agents[agent_name]
                        done == Dispatch(agents, agent_name, action, partner, transfer_amount)
                        new_reputation == done.agents[agent_name]
                    IN  /\ agents' = done.agents
                        /\ action_history' = Append(action_history,
                               HistoryEntry(agent_name, action, new_reputation - old_reputation))
                        /\ call' = [via |-> "api", op |-> "step",
                                    args |-> <<agent_name, action, partner, transfer_amount>>]
                        /\ ret' = [kind |-> "record",
                                   record |-> StepRecord(step_count + 1, agent_name, action,
                                                 old_reputation, new_reputation,
                                                 get_health_score(done.agents))]
    /\ held' = Follow(held, agents', action_history')

StepWith(limit, kinds, amounts) == StepDrawn(limit, agent_names(agents), kinds, amounts)

Step == StepWith(MaxSteps, Actions, TransferAmounts) /\ UNCHANGED session

Next == Step \/ Reset

Spec == Init /\ [][Next]_vars

---------------------------------------------------------------------------
(* Long runs: the engine driven by step() and reset() alone, from the       *)
(* construction of one agent or of two, with the random draws restricted   *)
(* to one seed, one amount and the kinds contribute and trade, far enough  *)
(* for a reputation to climb from its seed to the ceiling or to fall below *)
(* the amount of a trade.                                                  *)

\* a lone agent, which has no partner to trade with, and a pair
RunCounts == {1, 2}

RunInit == Construct(RunCounts, RunReps) /\ Standalone

RunStep == StepWith(MaxRun, RunActions, RunAmounts) /\ UNCHANGED session

RunReset == ResetWith(RunCounts, RunReps)

RunNext == RunStep \/ RunReset

SpecRun == RunInit /\ [][RunNext]_vars

---------------------------------------------------------------------------
(* The dispatcher driven directly: from a freshly constructed simulation   *)
(* the caller invokes the grounded functions (sim.metta.grounded_functions) *)
(* and the textual interface (sim.metta.run) with arguments of its own     *)
(* choice, unknown agent names included.                                   *)

\* seeds drawn by random.uniform(50, 100)
OpsReps == {Fix(60), Fix(90)}

\* deltas handed to update-reputation
OpsDeltas == {Fix(-150), Fix(15), Fix(150)}

\* amounts handed to transfer-reputation
OpsAmounts == {Fix(60), Fix(100)}

\* agent names handed to the dispatcher: every agent and a name that is none
AgentArgs == (DOMAIN agents) \cup {UnknownAgent}

\* argument lists a caller hands to the operation of a given name
ArgsOf(name) ==
    CASE name \in {"update-reputation"} ->
            {<<a, d>> : a \in AgentArgs, d \in OpsDeltas}
      [] name = "transfer-reputation" ->
            {<<a, b, m>> : a \in AgentArgs, b \in AgentArgs, m \in OpsAmounts}
      [] OTHER -> {<<a>> : a \in AgentArgs}

OpsInit == Construct(AgentCounts, OpsReps) /\ Standalone

Invoke(via, name, args, done) ==
    /\ calls < MaxCalls
    /\ calls' = calls + 1
    /\ call' = [via |-> via, op |-> name, args |-> args]
    /\ before' = agents
    /\ agents' = done.agents
    /\ ret' = done.ret
    /\ UNCHANGED <<num_agents, step_count, action_history, key_order, metta, threads,
                   session>>
    /\ held' = Follow(held, agents', action_history')

\* sim.metta.grounded_functions[name](*args)
CallGrounded ==
    \E name \in GroundedNames : \E args \in ArgsOf(name) :
        Invoke("grounded", name, args, Grounded(agents, name, args))

\* sim.metta.run("!(name arg ...)")
CallRun ==
    \E name \in RuleNames \cup GroundedNames : \E args \in ArgsOf(name) :
        Invoke("run", name, args, run(agents, name, args))

OpsNext == CallGrounded \/ CallRun

SpecOps == OpsInit /\ [][OpsNext]_vars

---------------------------------------------------------------------------
(* The getters and a caller that keeps and modifies what they return: the  *)
(* engine steps between two resets, with the draws of the long runs, while *)
(* the caller asks for the agent states or the history, keeps the object   *)
(* and writes to it.                                                       *)

CopyInit == Construct({MaxAgents}, RunReps) /\ Standalone

CopyStep == StepWith(MaxSteps, RunActions, RunAmounts) /\ UNCHANGED session

Getter(name, object) ==
    /\ held' = object
    /\ call' = [via |-> "api", op |-> name, args |-> <<>>]
    /\ ret' = NoneVal
    /\ UNCHANGED <<agents, num_agents, step_count, action_history, key_order, before, calls,
                   metta, threads, session>>

GetAgentStates == Getter("get_agent_states", get_agent_states(agents))

GetActionHistory == Getter("get_action_history", get_action_history(action_history))

\* the caller writes to the object it holds: states[a] = 0.0 on a dictionary,
\* history.clear() on a list; a shared object is the engine's own
CallerWrites ==
    /\ held.kind # "none"
    /\ \E a \in (IF held.kind = "states" THEN DOMAIN held.value ELSE {NoAgent}) :
         LET written == IF held.kind = "states"
                        THEN [held.value EXCEPT ![a] = 0]
                        ELSE <<>>
         IN  /\ held.value # written
             /\ held' = [held EXCEPT !.value = written]
             /\ agents' = IF held.shared /\ held.kind = "states" THEN written ELSE agents
             /\ action_history' =
                    IF held.shared /\ held.kind = "history" THEN written ELSE action_history
             /\ call' = [via |-> "caller", op |-> "write", args |-> <<a>>]
    /\ ret' = NoneVal
    /\ UNCHANGED <<num_agents, step_count, key_order, before, calls, metta, threads,
                   session>>

CopyNext == CopyStep \/ GetAgentStates \/ GetActionHistory \/ CallerWrites

SpecCopy == CopyInit /\ [][CopyNext]_vars

---------------------------------------------------------------------------
(* A larger population: three agents when MaxAgents is two, so that a trade *)
(* between two of them leaves a third one aside.  Resets change the count.  *)

FrameCounts == {MaxAgents, MaxAgents + 1}

FrameInit == Construct({MaxAgents + 1}, RunReps) /\ Standalone

FrameStep == StepWith(MaxSteps, Actions, RunAmounts) /\ UNCHANGED session

FrameReset == ResetWith(FrameCounts, RunReps)

FrameNext == FrameStep \/ FrameReset

SpecFrame == FrameInit /\ [][FrameNext]_vars

---------------------------------------------------------------------------
(* A lone agent or a pair, with every action kind, seed and amount of Spec: *)
(* the population stays small so that each state can be asked which steps  *)
(* it allows.                                                              *)

SelectInit == Construct(RunCounts, InitReps) /\ Standalone

SelectStep == StepWith(MaxSteps, Actions, TransferAmounts) /\ UNCHANGED session

SelectReset == ResetWith(RunCounts, InitReps)

SelectNext == SelectStep \/ SelectReset

SpecSelect == SelectInit /\ [][SelectNext]_vars

---------------------------------------------------------------------------
(* Two callers share one instance and call step() concurrently.  step() is *)
(* followed statement by statement (the read and the write of               *)
(* self.step_count += 1 apart), and the statements of the two callers       *)
(* interleave freely.  In the runs with use_lock the callers wrap every     *)
(* call of step() in one mutual-exclusion lock of their own; in the others  *)
(* they call it bare.  The draws are those of the long runs.                *)

\* the local variables of step() on entry
Frame ==
    [loaded |-> 0, agent_name |-> NoAgent, action |-> "none", old_reputation |-> 0,
     new_reputation |-> 0, effect |-> 0]

ThreadsInit ==
    /\ Construct(RunCounts, RunReps)
    /\ session = initialize_session_state
    /\ \E b \in BOOLEAN : threads = [NoThreads EXCEPT !.use_lock = b]

\* everything a statement of step() leaves alone whatever it does
ThreadFrame ==
    UNCHANGED <<num_agents, key_order, call, ret, before, calls, held, metta, session>>

\* the caller enters step(), after taking the lock where one is used
Enter(t) ==
    /\ threads.pc[t] = "idle"
    /\ Len(threads.returned[t]) < MaxThreadCalls
    /\ threads.use_lock => threads.lock = 0
    /\ threads' = [threads EXCEPT !.pc[t] = "load", !.local[t] = Frame,
                                  !.lock = IF threads.use_lock THEN t ELSE 0]
    /\ UNCHANGED <<agents, step_count, action_history>>
    /\ ThreadFrame

\* self.step_count += 1: the read
LoadCount(t) ==
    /\ threads.pc[t] = "load"
    /\ threads' = [threads EXCEPT !.pc[t] = "store", !.local[t].loaded = step_count]
    /\ UNCHANGED <<agents, step_count, action_history>>
    /\ ThreadFrame

\* self.step_count += 1: the write
StoreCount(t) ==
    /\ threads.pc[t] = "store"
    /\ step_count' = threads.local[t].loaded + 1
    /\ threads' = [threads EXCEPT !.pc[t] = "choose"]
    /\ UNCHANGED <<agents, action_history>>
    /\ ThreadFrame

\* lines 165-172: the draws of agent and action, and old_reputation
Choose(t) ==
    /\ threads.pc[t] = "choose"
    /\ \E agent_name \in agent_names(agents) : \E action \in RunActions :
         threads' = [threads EXCEPT !.pc[t] = "dispatch",
                                    !.local[t].agent_name = agent_name,
                                    !.local[t].action = action,
                                    !.local[t].old_reputation = agents[agent_name]]
    /\ UNCHANGED <<agents, step_count, action_history>>
    /\ ThreadFrame

\* lines 175-189: the rule is run; effect is what this run did to the acting agent
Execute(t) ==
    /\ threads.pc[t] = "dispatch"
    /\ LET l == threads.local[t]
           other_agents == OtherAgents(agents, l.agent_name)
           trading == l.action = "trade" /\ other_agents # {}
       IN  \E partner \in (IF trading THEN other_agents ELSE {NoAgent}) :
           \E transfer_amount \in (IF trading THEN RunAmounts ELSE {0}) :
             LET done == Dispatch(agents, l.agent_name, l.action, partner, transfer_amount)
             IN  /\ agents' = done.agents
                 /\ threads' = [threads EXCEPT !.pc[t] = "append",
                        !.local[t].effect = done.agents[l.agent_name] - agents[l.agent_name]]
    /\ UNCHANGED <<step_count, action_history>>
    /\ ThreadFrame

\* lines 191-195: new_reputation, reputation_change and the append
AppendHistory(t) ==
    /\ threads.pc[t] = "append"
    /\ LET l == threads.local[t]
           new_reputation == agents[l.agent_name]
       IN  /\ action_history' = Append(action_history,
                  HistoryEntry(l.agent_name, l.action, new_reputation - l.old_reputation))
           /\ threads' = [threads EXCEPT !.pc[t] = "return",
                                         !.local[t].new_reputation = new_reputation]
    /\ UNCHANGED <<agents, step_count>>
    /\ ThreadFrame

\* lines 197-205: the record is built and returned; the caller releases its lock
Return(t) ==
    /\ threads.pc[t] = "return"
    /\ LET l == threads.local[t]
           record == StepRecord(step_count, l.agent_name, l.action, l.old_reputation,
                                l.new_reputation, get_health_score(agents))
       IN  threads' = [threads EXCEPT !.pc[t] = "idle", !.local[t] = NoneVal, !.lock = 0,
                          !.returned[t] = Append(@, [record |-> record, effect |-> l.effect])]
    /\ UNCHANGED <<agents, step_count, action_history>>
    /\ ThreadFrame

ThreadEnter == \E t \in Threads : Enter(t)
ThreadLoadCount == \E t \in Threads : LoadCount(t)
ThreadStoreCount == \E t \in Threads : StoreCount(t)
ThreadChoose == \E t \in Threads : Choose(t)
ThreadExecute == \E t \in Threads : Execute(t)
ThreadAppendHistory == \E t \in Threads : AppendHistory(t)
ThreadReturn == \E t \in Threads : Return(t)

ThreadsNext ==
    \/ ThreadEnter
    \/ ThreadLoadCount
    \/ ThreadStoreCount
    \/ ThreadChoose
    \/ ThreadExecute
    \/ ThreadAppendHistory
    \/ ThreadReturn

SpecThreads == ThreadsInit /\ [][ThreadsNext]_vars

---------------------------------------------------------------------------
(* The dashboard (src/app.py): one browser session.  The user presses Run, *)
(* Stop and Reset in the sidebar; run_simulation drives the engine one     *)
(* iteration of its loop at a time; once a run is over the replay controls *)
(* First, Previous, Next, Last and the slider move current_view_step.  The *)
(* sliders of the sidebar stand at their smallest values, and the engine's *)
(* draws are one seed, the action contribute and the first two agents.     *)

DashActions == {"contribute"}

\* the agents random.choice returns in the runs of the dashboard
DashActors == {a \in agent_names(agents) : a <= 1}

\* st.session_state.simulation is None: there is no engine object
NoSimulation ==
    /\ num_agents = 0
    /\ metta = SimpleMeTTaRuntime
    /\ agents = Empty
    /\ key_order = <<>>
    /\ action_history = <<>>
    /\ step_count = 0
    /\ call = [via |-> "app", op |-> "none", args |-> <<>>]
    /\ ret = NoneVal
    /\ before = Empty
    /\ calls = 0
    /\ held = NoObject

DashInit == NoSimulation /\ threads = NoThreads /\ session = initialize_session_state

\* the replay controls and the buttons leave the engine alone
EngineUnchanged ==
    UNCHANGED <<agents, num_agents, step_count, action_history, key_order, call, ret,
                before, calls, held, metta, threads>>

\* AgentSimulation(num_agents=n), on first use
DashConstruct(n, reps) ==
    \E seeds \in [0..(n - 1) -> reps] :
        /\ num_agents' = n
        /\ metta' = InitialRegistry
        /\ agents' = initialize_agents(Empty, n, seeds)
        /\ key_order' = insertion_order(<<>>, n)
        /\ action_history' = <<>>
        /\ step_count' = 0
        /\ call' = [via |-> "api", op |-> "construct", args |-> <<n>>]
        /\ ret' = NoneVal
        /\ before' = Empty
        /\ UNCHANGED <<calls, held, threads>>

\* the Run button (lines 146-155), then main (497-500) and run_simulation up to
\* its loop (189-198)
DashRun ==
    /\ ~session.is_running /\ ~session.in_loop
    /\ IF session.simulation
       THEN ResetTo(TRUE, SidebarAgents, RunReps)
       ELSE DashConstruct(SidebarAgents, RunReps)
    /\ session' = [session EXCEPT
            !.stop_flag = FALSE, !.start_simulation = FALSE,
            !.sim_params = [num_agents |-> SidebarAgents, num_steps |-> SidebarSteps],
            !.simulation = TRUE, !.is_running = TRUE,
            !.history = <<>>, !.health_score_history = <<>>,
            !.agent_states_history = <<>>, !.current_view_step = 0,
            !.step = 0, !.in_loop = TRUE]

\* one iteration of the loop of run_simulation: lines 208-222
DashIterate ==
    /\ session.in_loop /\ session.step < session.sim_params.num_steps
    /\ ~session.stop_flag
    /\ StepDrawn(SidebarSteps, DashActors, DashActions, RunAmounts)
    /\ session' = [session EXCEPT
            !.history = Append(@, ret'.record),
            !.health_score_history = Append(@, ret'.record.health_score),
            !.agent_states_history = Append(@, get_agent_states(agents').value),
            !.current_view_step = session.step + 1,
            !.step = @ + 1]

\* the loop sees stop_flag: lines 209-212, then 349
DashBreak ==
    /\ session.in_loop /\ session.step < session.sim_params.num_steps
    /\ session.stop_flag
    /\ session' = [session EXCEPT !.is_running = FALSE, !.in_loop = FALSE]
    /\ EngineUnchanged

\* the loop has run num_steps times: line 349
DashFinish ==
    /\ session.in_loop /\ session.step = session.sim_params.num_steps
    /\ session' = [session EXCEPT !.is_running = FALSE, !.in_loop = FALSE]
    /\ EngineUnchanged

\* the Stop button: lines 157-159
DashStop ==
    /\ session.is_running
    /\ ~session.stop_flag
    /\ session' = [session EXCEPT !.stop_flag = TRUE]
    /\ EngineUnchanged

\* the Reset button, outside a run: lines 161-163 and reset_simulation
DashReset ==
    /\ ~session.in_loop
    /\ session.simulation
    /\ session' = [initialize_session_state EXCEPT
            !.start_simulation = session.start_simulation,
            !.sim_params = session.sim_params]
    /\ num_agents' = 0
    /\ metta' = SimpleMeTTaRuntime
    /\ agents' = Empty
    /\ key_order' = <<>>
    /\ action_history' = <<>>
    /\ step_count' = 0
    /\ call' = [via |-> "app", op |-> "none", args |-> <<>>]
    /\ ret' = NoneVal
    /\ before' = Empty
    /\ UNCHANGED <<calls, held, threads>>

\* the condition under which main shows the replay controls: lines 505 and 511
ReplayMode ==
    /\ session.history # <<>>
    /\ ~session.is_running
    /\ session.agent_states_history # <<>>

ViewStep(v) ==
    /\ ReplayMode
    /\ session' = [session EXCEPT !.current_view_step = v]
    /\ EngineUnchanged

\* lines 517-519
DashFirst == ViewStep(0)

\* lines 523-533: the user moves the slider to a position it offers
DashSlider ==
    \E view_step \in 0..(Len(session.agent_states_history) - 1) : ViewStep(view_step)

\* lines 536-538
DashLast == ViewStep(Len(session.agent_states_history) - 1)

\* lines 543-546
DashPrevious ==
    /\ ~(session.current_view_step = 0)
    /\ ViewStep(Max(0, session.current_view_step - 1))

\* lines 549-555
DashNextStep ==
    /\ ~(session.current_view_step >= Len(session.agent_states_history) - 1)
    /\ ViewStep(Min(Len(session.agent_states_history) - 1, session.current_view_step + 1))

DashNext ==
    \/ DashRun
    \/ DashIterate
    \/ DashBreak
    \/ DashFinish
    \/ DashStop
    \/ DashReset
    \/ DashFirst
    \/ DashSlider
    \/ DashLast
    \/ DashPrevious
    \/ DashNextStep

SpecDash == DashInit /\ [][DashNext]_vars

---------------------------------------------------------------------------
(* Claims *)

\* what the last call was about
IsTransfer == call.op = "transfer-reputation"
IsUpdate == call.op = "update-reputation" /\ call.via = "grounded"
IsGet == call.op = "get-reputation" /\ call.via = "grounded"
IsNamedAction == call.via = "run" /\ call.op \in {"action-contribute", "action-share", "action-idle"}
OthersUnchanged(touched) ==
    /\ DOMAIN agents = DOMAIN before
    /\ \A i \in DOMAIN agents : i \notin touched => agents[i] = before[i]

\* C1: in every state reachable by step() and reset() calls every agent's
\* reputation lies in [0, 200], the receiver's credit of a transfer included.
C1_ReputationInRange ==
    \A a \in DOMAIN agents :
        Fix(ReputationFloor) <= agents[a] /\ agents[a] <= Fix(ReputationCeiling)

\* C2: between operations step_count equals the number of records of
\* action_history (n of each after n calls to step()).
C2_CountMatchesHistory == step_count = Len(action_history)

\* C3 as stated: the i-th record of action_history has a step field, equal to
\* its 1-based position.
C3_HistoryStepField ==
    \A i \in 1..Len(action_history) :
        "step" \in DOMAIN action_history[i] /\ action_history[i].step = i

\* C3 as amended: the record a step() returns has step = step_count = the
\* length of action_history, and the entry at that position of the history is
\* the (agent, action, reputation_change) of that record, with no step field.
C3_ReturnedStepIndex ==
    ret.kind = "record" =>
        /\ ret.record.step = step_count
        /\ ret.record.step = Len(action_history)
        /\ DOMAIN action_history[ret.record.step] = {"agent", "action", "reputation_change"}
        /\ action_history[ret.record.step].agent = ret.record.agent
        /\ action_history[ret.record.step].action = ret.record.action
        /\ action_history[ret.record.step].reputation_change = ret.record.reputation_change

C3_Witness ==
    /\ ret.kind = "record"
    /\ ret.record.step = 2
    /\ Len(action_history) = 2

\* C4: a transfer from a known agent whose reputation is below the amount
\* returns 0 and leaves every reputation unchanged.
C4_TransferInsufficient ==
    (IsTransfer /\ Known(before, call.args[1]) /\ before[call.args[1]] < call.args[3])
        => (ret = Val(0) /\ agents = before)

C4_Witness ==
    /\ IsTransfer
    /\ Known(before, call.args[1]) /\ Known(before, call.args[2])
    /\ call.args[1] # call.args[2]
    /\ before[call.args[1]] < call.args[3]
    /\ ret = Val(0)

\* C5: a transfer between two distinct known agents, the sender holding at
\* least the amount, returns 1, debits the sender by the amount, credits the
\* receiver by 1.1 times the amount and raises the sum of the store by 0.1
\* times the amount.
C5_TransferSucceeds ==
    (IsTransfer /\ Known(before, call.args[1]) /\ Known(before, call.args[2])
        /\ call.args[1] # call.args[2] /\ before[call.args[1]] >= call.args[3])
        => LET a == call.args[1]
               b == call.args[2]
               amt == call.args[3]
           IN  /\ ret = Val(1)
               /\ agents[a] = before[a] - amt
               /\ 10 * (agents[b] - before[b]) = 11 * amt
               /\ 10 * (SumValues(agents, DOMAIN agents) - SumValues(before, DOMAIN before)) = amt

C5_Witness ==
    /\ IsTransfer
    /\ Known(before, call.args[1]) /\ Known(before, call.args[2])
    /\ call.args[1] # call.args[2]
    /\ before[call.args[1]] = call.args[3]
    /\ ret = Val(1)
    /\ agents[call.args[1]] = 0

\* C6: update on a known agent stores clamp(old + delta, 0, 200) and returns
\* it: 200 above the ceiling, 0 below the floor, old + delta in between.
C6_UpdateClamps ==
    (IsUpdate /\ Known(before, call.args[1]))
        => LET a == call.args[1]
               s == before[a] + call.args[2]
           IN  /\ agents[a] = (IF s > 2000 THEN 2000 ELSE IF s < 0 THEN 0 ELSE s)
               /\ ret = Val(agents[a])
               /\ OthersUnchanged({a})

C6_Witness ==
    /\ IsUpdate /\ Known(before, call.args[1])
    /\ before[call.args[1]] + call.args[2] < 0
    /\ agents[call.args[1]] = 0

\* C7: contribute is update by +15, share by +8 and idle by -2 on the acting
\* agent, clamped; contribute on an agent at 60 gives 75.
C7_NamedActionDeltas ==
    (IsNamedAction /\ Known(before, call.args[1]))
        => LET a == call.args[1]
               d == CASE call.op = "action-contribute" -> 150
                      [] call.op = "action-share" -> 80
                      [] call.op = "action-idle" -> -20
               s == before[a] + d
           IN  /\ agents[a] = (IF s > 2000 THEN 2000 ELSE IF s < 0 THEN 0 ELSE s)
               /\ ret = Val(agents[a])
               /\ OthersUnchanged({a})
               /\ (call.op = "action-contribute" /\ before[a] = 600 => agents[a] = 750)

\* +15 then -2 from 90: the store shows 103 after the idle that follows the contribute
C7_Witness ==
    /\ IsNamedAction /\ call.op = "action-idle" /\ Known(before, call.args[1])
    /\ calls = 2
    /\ before[call.args[1]] = 1050
    /\ agents[call.args[1]] = 1030

\* C8: a dispatcher call that names an agent not in the store raises nothing,
\* returns 0 and leaves the store as it was.
C8_UnknownAgentNoOp ==
    (\/ ((IsUpdate \/ IsGet \/ IsNamedAction) /\ ~Known(before, call.args[1]))
     \/ (IsTransfer /\ (~Known(before, call.args[1]) \/ ~Known(before, call.args[2]))))
        => (ret = Val(0) /\ agents = before)

C8_Witness ==
    /\ IsTransfer
    /\ Known(before, call.args[1]) /\ ~Known(before, call.args[2])
    /\ before[call.args[1]] >= call.args[3]
    /\ ret = Val(0)

\* C9: health_score() is the sum of the reputations divided by the agent
\* count; 0 on an empty store and exactly R on a store of one agent at R.
C9_HealthIsMean ==
    LET h == get_health_score(agents)
        n == Cardinality(DOMAIN agents)
    IN  /\ n = 0 => h = [num |-> 0, den |-> 1]
        /\ n > 0 => h.den > 0 /\ h.num * n = SumValues(agents, DOMAIN agents) * h.den
        /\ n = 1 => \A a \in DOMAIN agents : h = [num |-> agents[a], den |-> 1]

C9_Witness ==
    /\ Cardinality(DOMAIN agents) = 2
    /\ step_count > 0
    /\ get_health_score(agents).den = 2

\* C10: reputation_distribution() counts every agent in exactly one of high
\* (>= 100), medium (>= 50 and < 100) and low (< 50); 100 is high, 50 medium.
C10_DistributionPartitions ==
    LET d == get_reputation_distribution(agents)
    IN  /\ d.high + d.medium + d.low = Cardinality(DOMAIN agents)
        /\ d.high = Cardinality({a \in DOMAIN agents : agents[a] >= 1000})
        /\ d.medium = Cardinality({a \in DOMAIN agents : agents[a] >= 500 /\ agents[a] < 1000})
        /\ d.low = Cardinality({a \in DOMAIN agents : agents[a] < 500})

C10_Witness ==
    /\ \E a \in DOMAIN agents : agents[a] = 1000
    /\ \E a \in DOMAIN agents : agents[a] = 500
    /\ get_reputation_distribution(agents).high = 1
    /\ get_reputation_distribution(agents).medium = 1

\* what the last step() drew
IsStep == call.op = "step" /\ Len(call.args) = 4
StepAgent == call.args[1]
StepAction == call.args[2]
StepPartner == call.args[3]
StepAmount == call.args[4]
InSeedRange(ag) == \A a \in DOMAIN ag : 500 <= ag[a] /\ ag[a] <= 1000

\* C11: reset(k) leaves exactly k agents, each with a reputation in [50, 100],
\* an empty action_history and step_count 0; reset() without a count leaves as
\* many agents as there were, and clears history and counter likewise.
C11_ResetReseeds ==
    [][call'.op = "reset" =>
         /\ step_count' = 0
         /\ action_history' = <<>>
         /\ InSeedRange(agents')
         /\ IF call'.args # <<>>
            THEN call'.args[1] >= 0 => Cardinality(DOMAIN agents') = call'.args[1]
            ELSE Cardinality(DOMAIN agents') = Cardinality(DOMAIN agents)]_vars

C11_Witness ==
    /\ call.op = "reset" /\ call.args = <<1>>
    /\ Cardinality(DOMAIN agents) = 1
    /\ step_count = 0 /\ action_history = <<>>

\* C12: construct(n) yields the agents Agent_0 .. Agent_{n-1}, listed in index
\* order, each with a reputation in [50, 100], step_count 0 and an empty
\* action_history.
C12_ConstructSeeds ==
    call.op = "construct" =>
        LET n == call.args[1]
        IN  /\ DOMAIN agents = 0..(n - 1)
            /\ Len(key_order) = Cardinality(DOMAIN agents)
            /\ \A p \in DOMAIN key_order : key_order[p] = p - 1
            /\ InSeedRange(agents)
            /\ step_count = 0
            /\ action_history = <<>>

C12_Witness ==
    /\ call.op = "construct" /\ call.args = <<2>>
    /\ key_order = <<0, 1>>

\* C13: construct(n) and reset(n) with n zero or negative fail with an error
\* and leave no simulation whose agent store is empty.
C13_NonPositiveCountRejected ==
    /\ DOMAIN agents # {}
    /\ (call.op \in {"construct", "reset"} /\ call.args # <<>> /\ call.args[1] <= 0)
           => ret.kind = "raise"

\* C14: a trade step that cannot transfer (no other agent, or the acting
\* agent's reputation below the amount) raises nothing, changes no
\* reputation, and appends and returns a record with action trade and delta 0.
C14_FailedTradeRecorded ==
    (IsStep /\ StepAction = "trade"
        /\ (StepPartner = NoAgent \/ before[StepAgent] < StepAmount))
        => /\ ret.kind = "record"
           /\ agents = before
           /\ ret.record.action = "trade"
           /\ ret.record.reputation_change = 0
           /\ Len(action_history) >= 1
           /\ action_history[Len(action_history)].agent = StepAgent
           /\ action_history[Len(action_history)].action = "trade"
           /\ action_history[Len(action_history)].reputation_change = 0

C14_Witness ==
    /\ IsStep /\ StepAction = "trade"
    /\ StepPartner # NoAgent
    /\ before[StepAgent] < StepAmount
    /\ ret.kind = "record"

\* C15: every step() runs to completion and returns a record; no step raises.
C15_StepCompletes == call.op = "step" => ret.kind = "record"

\* C16: agent_states() and action_history() hand out copies: a write of the
\* caller to the object it was handed leaves the engine's store, history and
\* step counter unchanged, and a later step of the engine leaves that object
\* unchanged.
C16_DefensiveCopies ==
    [][/\ call'.op = "get_agent_states" => held'.value = agents
       /\ call'.op = "get_action_history" => held'.value = action_history
       /\ call'.op = "write" =>
             (agents' = agents /\ action_history' = action_history
                 /\ step_count' = step_count)
       /\ call'.op = "step" => held' = held]_vars

\* the caller holds the states it was handed two steps ago
C16_Witness ==
    /\ held.kind = "states"
    /\ call.op = "step"
    /\ step_count = 2
    /\ held.value # agents
    /\ \A a \in DOMAIN held.value : held.value[a] = 1000

\* C18: in the record a step() returns, old_reputation and new_reputation are
\* the acting agent's reputation before and after the dispatch,
\* reputation_change is their difference, and health_score is the mean of the
\* store after the mutation.
C18_RecordFields ==
    (IsStep /\ ret.kind = "record") =>
        LET r == ret.record
            n == Cardinality(DOMAIN agents)
        IN  /\ r.agent = StepAgent
            /\ r.action = StepAction
            /\ r.old_reputation = before[r.agent]
            /\ r.new_reputation = agents[r.agent]
            /\ r.reputation_change = agents[r.agent] - before[r.agent]
            /\ r.health_score = get_health_score(agents)
            /\ r.health_score.num * n = SumValues(agents, DOMAIN agents) * r.health_score.den

C18_Witness ==
    /\ IsStep /\ ret.kind = "record"
    /\ StepAction = "contribute"
    /\ ret.record.reputation_change = 150
    /\ Cardinality(DOMAIN agents) = 2
    /\ ret.record.step = 2

\* C19: the record of a successful trade step describes the initiator alone:
\* its delta is minus the amount; the partner's gain of 1.1 times the amount
\* is in the store and in no field of the record or of the history entry.
C19_TradeRecordsInitiatorOnly ==
    (IsStep /\ StepAction = "trade" /\ StepPartner # NoAgent
        /\ before[StepAgent] >= StepAmount)
        => LET r == ret.record
               e == action_history[Len(action_history)]
           IN  /\ ret.kind = "record"
               /\ r.agent = StepAgent
               /\ r.reputation_change = 0 - StepAmount
               /\ 10 * (agents[StepPartner] - before[StepPartner]) = 11 * StepAmount
               /\ DOMAIN r = {"step", "agent", "action", "old_reputation",
                              "new_reputation", "reputation_change", "health_score"}
               /\ DOMAIN e = {"agent", "action", "reputation_change"}
               /\ e.agent = StepAgent
               /\ e.reputation_change = 0 - StepAmount

C19_Witness ==
    /\ IsStep /\ StepAction = "trade" /\ StepPartner # NoAgent
    /\ before[StepAgent] >= StepAmount
    /\ ret.kind = "record"
    /\ ret.record.reputation_change = -150
    /\ agents[StepPartner] = before[StepPartner] + 165

\* C20: a step that performs a transfer does so to an existing agent other
\* than the acting one, with an amount in [5, 15]; never to the acting agent.
C20_TradePartnerDistinct ==
    (IsStep /\ StepPartner # NoAgent) =>
        /\ StepAction = "trade"
        /\ StepPartner \in DOMAIN before
        /\ StepAgent \in DOMAIN before
        /\ StepPartner # StepAgent
        /\ 50 <= StepAmount /\ StepAmount <= 150

C20_Witness ==
    /\ IsStep /\ StepAction = "trade"
    /\ StepPartner # NoAgent /\ StepPartner # StepAgent
    /\ StepAmount = 50
    /\ agents[StepAgent] = before[StepAgent] - 50

\* C21: a step() adds and removes no agent and changes the reputation of no
\* agent but the acting one and, in a trade, the chosen partner; the set of
\* agent ids changes through reset alone.
C21_StepFrame ==
    [][/\ call'.op = "step" =>
             /\ DOMAIN agents' = DOMAIN agents
             /\ IF Len(call'.args) = 4
                THEN \A i \in DOMAIN agents :
                        agents'[i] # agents[i] =>
                            \/ i = call'.args[1]
                            \/ (call'.args[2] = "trade" /\ i = call'.args[3])
                ELSE agents' = agents
       /\ DOMAIN agents' # DOMAIN agents => call'.op = "reset"]_vars

\* a trade between two of three agents: the third is where it was
C21_Witness ==
    /\ IsStep /\ StepAction = "trade" /\ StepPartner # NoAgent
    /\ Cardinality(DOMAIN agents) = 3
    /\ agents[StepAgent] # before[StepAgent]
    /\ agents[StepPartner] # before[StepPartner]
    /\ \E i \in DOMAIN agents : i \notin {StepAgent, StepPartner} /\ agents[i] = before[i]

\* C22: between resets step_count grows by exactly 1 with every step(), and
\* every step() appends exactly one record to action_history and leaves the
\* earlier records as and where they were.
C22_AppendOnly ==
    [][call'.op = "step" =>
         /\ step_count' = step_count + 1
         /\ Len(action_history') = Len(action_history) + 1
         /\ SubSeq(action_history', 1, Len(action_history)) = action_history]_vars

\* C23: after a step() that failed or changed nothing, step_count equals the
\* number of records of action_history and no reputation has changed.
C23_FailedStepConsistent ==
    (call.op = "step" /\ (ret.kind = "raise" \/ agents = before))
        => (step_count = Len(action_history) /\ agents = before)

\* C24: the registry of rules and grounded functions is the one built at
\* construction in every state: no step() and no reset() adds, removes or
\* rebinds a name, and every step, those after a reset included, applies
\* contribute +15, share +8 and idle -2 to the acting agent.
C24_RegistryFixed ==
    [][/\ metta' = metta
       /\ DOMAIN metta'.rules =
              {"action-contribute", "action-share", "action-idle", "transfer-reputation"}
       /\ DOMAIN metta'.grounded_functions =
              {"update-reputation", "get-reputation", "transfer-reputation"}
       /\ (call'.op = "step" /\ Len(call'.args) = 4 /\ call'.args[2] # "trade") =>
              LET a == call'.args[1]
                  d == CASE call'.args[2] = "contribute" -> 150
                         [] call'.args[2] = "share" -> 80
                         [] call'.args[2] = "idle" -> -20
                  sum == agents[a] + d
              IN  agents'[a] = (IF sum > 2000 THEN 2000 ELSE IF sum < 0 THEN 0 ELSE sum)]_vars

\* a reset has been carried out and the four rules are bound as at construction
C24_Witness ==
    /\ call.op = "reset"
    /\ metta.rules["action-contribute"] = "action_contribute"
    /\ metta.rules["action-share"] = "action_share"
    /\ metta.rules["action-idle"] = "action_idle"
    /\ metta.rules["transfer-reputation"] = "action_transfer"

\* C25: every dispatcher operation, update-reputation and get-reputation
\* included, invoked by name through run performs the operation and returns
\* its result: the store and the value are those of the direct call.
C25_RunReachesEveryOperation ==
    (call.via = "run" /\ call.op \in {"update-reputation", "get-reputation"}
        /\ Known(before, call.args[1]))
        => /\ ret.kind = "value"
           /\ call.op = "get-reputation" => ret = Val(before[call.args[1]])
           /\ call.op = "update-reputation" =>
                 LET sum == before[call.args[1]] + call.args[2]
                 IN  /\ agents[call.args[1]] =
                            (IF sum > 2000 THEN 2000 ELSE IF sum < 0 THEN 0 ELSE sum)
                     /\ ret = Val(agents[call.args[1]])

\* C26: wherever the store holds an agent, a step may pick any agent of the
\* store as the acting agent and any of contribute, share, trade and idle as
\* its action, whatever the reputations are.
C26_SelectionUnconditional ==
    (DOMAIN agents # {} /\ step_count < MaxSteps) =>
        \A a \in DOMAIN agents : \A k \in {"contribute", "share", "trade", "idle"} :
            ENABLED (SelectStep /\ call'.args[1] = a /\ call'.args[2] = k)

\* one step taken, another possible, one agent in the low tier and one in the high
C26_Witness ==
    /\ step_count = 1 /\ step_count < MaxSteps
    /\ \E a \in DOMAIN agents : Tier(agents[a]) = "low"
    /\ \E a \in DOMAIN agents : Tier(agents[a]) = "high"

\* the records step() has returned to the callers, each with its caller and position
ReturnedRecords ==
    {x \in Threads \X (1..MaxThreadCalls) : x[2] \in DOMAIN threads.returned[x[1]]}
DuplicateIndex ==
    \E x \in ReturnedRecords : \E y \in ReturnedRecords :
        /\ x # y
        /\ threads.returned[x[1]][x[2]].record.step = threads.returned[y[1]][y[2]].record.step
WrongDelta ==
    \E x \in ReturnedRecords :
        threads.returned[x[1]][x[2]].record.reputation_change
            # threads.returned[x[1]][x[2]].effect

\* C27: with a mutual-exclusion lock held around every call of step(), no
\* interleaving of two callers returns two records with the same step index
\* or a record whose delta differs from what its own action did; without the
\* lock such an interleaving exists (the witness).
C27_LockedStepsConsistent ==
    threads.use_lock => (~DuplicateIndex /\ ~WrongDelta)

\* two bare calls: both records carry the same step index, and one a delta that
\* is not the effect of its own action
C27_Witness ==
    /\ ~threads.use_lock
    /\ DuplicateIndex
    /\ WrongDelta

C29_SelfTransferGains ==
    (IsTransfer /\ call.args[1] = call.args[2] /\ Known(before, call.args[1])
        /\ before[call.args[1]] >= call.args[3])
        => LET a == call.args[1]
               amt == call.args[3]
           IN  /\ ret = Val(1)
               /\ 10 * (agents[a] - before[a]) = amt
               /\ OthersUnchanged({a})

C29_Witness ==
    /\ IsTransfer /\ call.args[1] = call.args[2] /\ Known(before, call.args[1])
    /\ before[call.args[1]] = 600 /\ call.args[3] = 600
    /\ agents[call.args[1]] = 660
    /\ ret = Val(1)

\* C30: whenever the dashboard is in replay mode (history not empty, no run
\* in progress), current_view_step is an index of agent_states_history:
\* 0 <= current_view_step <= len(agent_states_history) - 1.
C30_ViewStepInRange ==
    (session.history # <<>> /\ ~session.is_running) =>
        /\ 0 <= session.current_view_step
        /\ session.current_view_step <= Len(session.agent_states_history) - 1

=============================================================================
